---- MODULE Spec2Model ----
(***************************************************************************)
(* clang-ast: the typed tree decoder for Clang's -ast-dump=json format.    *)
(*                                                                         *)
(* The model follows src/src/lib.rs: Node<T>, NodeVisitor::visit_map and   *)
(* <Node<T> as Deserialize>::deserialize.  The modules lib.rs declares but *)
(* whose text is not part of the sources (deserializer, id, intern, kind,  *)
(* loc) are modelled from the specification; their definitions say so.     *)
(*                                                                         *)
(* The JSON reader is a pull parser: each action reads the next key (with  *)
(* its value) of the object being decoded, drawn from small sets, so a run *)
(* of the model is one depth-first pass over a sequence of documents.      *)
(* The recursion of Node::deserialize is an explicit stack of frames.      *)
(* Variables obj, doc, raised, lookups, positions, nread, offered and       *)
(* failed record the input as it was read and what was done with it; no    *)
(* guard of the decoder reads them.                                        *)
(***************************************************************************)
EXTENDS Integers, Sequences, FiniteSets, TLC

\* ---------------------------------------------------------------- bounds

\* Top-level decode calls in one run.
MaxCalls == 2
\* Node objects read in one run (over all calls).
MaxNodes == 3
\* Positions (a loc, a range.begin or a range.end) read in one run.
MaxPos == 3
\* "id" keys read in one run.
MaxIds == 2
\* Keys read in one run that T is given as a plain field or skips.
MaxExtra == 1

\* Nonzero digits of a u64 the codec is applied to on its own.
MaxSig == 2

\* What a run may read.  A run reads documents of one of two families:
\* trees whose objects carry ids, plain fields and repeated keys and no
\* positions, decoded in one call, and trees that carry positions and none
\* of those, decoded in up to MaxCalls calls.
Budgets ==
    { [ calls |-> 1, nodes |-> MaxNodes, pos |-> 0,
        ids |-> MaxIds, extra |-> MaxExtra ],
      [ calls |-> MaxCalls, nodes |-> MaxNodes, pos |-> MaxPos,
        ids |-> 0, extra |-> 0 ] }

\* ---------------------------------------------------------------- input alphabet

\* Texts of an "id" value, as character sequences: prefixed, bare, one that
\* is not hexadecimal, and the empty text.
IdTexts == { <<"0", "x", "1">>, <<"2">>, <<"g">>, << >> }

\* Values of "kind": one the schema has a variant for, one it has not.
KindNames == { "NamespaceDecl", "FooDecl" }

\* The text of an "id" that follows the kind.
LateIdText == <<"2">>

\* Keys that are none of id, kind, inner: read before the kind, or skipped
\* by a variant that does not declare them.
OtherKeys == { "name", "loc" }

FileTexts == { "a.c", "b.h" }

\* Raw values of the numeric position field: a line number, and -1 for a
\* value that has not the shape of a u32.
GoodLines == { 7 }
BadLines == { -1 }

\* An optional value is a sequence of length at most one.
NoneV == << >>
Some(v) == << v >>
Opt(S) == { NoneV } \cup { Some(v) : v \in S }

\* A position as the document gives it: each field present or omitted, and
\* one position with a field of the wrong shape.
RawPositions ==
    [ file : Opt(FileTexts), line : Opt(GoodLines) ]
        \cup { [ file |-> NoneV, line |-> Some(n) ] : n \in BadLines }

\* ---------------------------------------------------------------- id codec

HexDigits == << "0", "1", "2", "3", "4", "5", "6", "7", "8", "9",
                "a", "b", "c", "d", "e", "f" >>
HexUpper == << "0", "1", "2", "3", "4", "5", "6", "7", "8", "9",
               "A", "B", "C", "D", "E", "F" >>

IsHexChar(c) == \E i \in 1..16 : HexDigits[i] = c \/ HexUpper[i] = c

HexDigitValue(c) == (CHOOSE i \in 1..16 : HexDigits[i] = c \/ HexUpper[i] = c) - 1

\* StripPrefix of a codec that knows no prefix.
StripPrefixNone(s) == s

\* The digits of an id text: the text without its optional 0x prefix.
StripPrefix(s) ==
    IF Len(s) >= 2 /\ s[1] = "0" /\ s[2] \in { "x", "X" }
    THEN SubSeq(s, 3, Len(s))
    ELSE s

\* An Id is a u64: 16 hexadecimal digits.  The model holds a u64 as the
\* sequence of its 16 digit values, most significant first, since the
\* integers of the checker are narrower than 64 bits.
IdNibbles == 16

U64Zero == [ i \in 1..IdNibbles |-> 0 ]
U64Max == [ i \in 1..IdNibbles |-> 15 ]

\* The value of a digit string as a u64, digit by digit: the value so far
\* times 16, plus the digit; none when the product does not fit in 64 bits.
RECURSIVE HexValue(_)
HexValue(ds) ==
    IF ds = << >> THEN Some(U64Zero)
    ELSE LET hi == HexValue(SubSeq(ds, 1, Len(ds) - 1))
         IN  IF hi = NoneV \/ hi[1][1] # 0
             THEN NoneV
             ELSE Some(Tail(hi[1]) \o << HexDigitValue(ds[Len(ds)]) >>)

IdWellFormed(s) ==
    /\ StripPrefix(s) # << >>
    /\ \A i \in 1..Len(StripPrefix(s)) : IsHexChar(StripPrefix(s)[i])

\* IdDecode that reads a malformed text as the default Id.
IdDecodeOrZero(s) == IF IdWellFormed(s) THEN HexValue(StripPrefix(s)) ELSE Some(U64Zero)

\* Id::deserialize: the u64 of a text, or none for a malformed one.
IdDecode(s) == IF IdWellFormed(s) THEN HexValue(StripPrefix(s)) ELSE NoneV

\* A u64 as an integer of the model; the ids of the decoder's documents are
\* small.
RECURSIVE U64Int(_)
U64Int(n) ==
    IF n = << >> THEN 0
    ELSE 16 * U64Int(SubSeq(n, 1, Len(n) - 1)) + n[Len(n)]

\* The identifier of a text, or none for a malformed one.
IdParse(s) == IF IdDecode(s) = NoneV THEN NoneV ELSE Some(U64Int(IdDecode(s)[1]))

\* The codec at rest, while documents are decoded.
CodecIdle == [ stage |-> "idle", x |-> U64Zero, form |-> "", text |-> << >>,
               got |-> NoneV ]

\* ---------------------------------------------------------------- errors

Error(kind, field) == [ kind |-> kind, field |-> field ]

\* What one step of a decoder comes to: the frame to go on with, or an error.
Go(f) == [ ok |-> TRUE, f |-> f, e |-> Error("", "") ]
Fail(f, e) == [ ok |-> FALSE, f |-> f, e |-> e ]

\* ---------------------------------------------------------------- state

VARIABLES
    budget,     \* what the run may read
    calls,      \* top-level decode calls started
    nodes,      \* node objects started in this run
    npos,       \* positions read in this run
    nids,       \* "id" keys read in this run
    nextra,     \* plain or skipped keys read in this run
    stack,      \* the frames of Node::deserialize in progress, outermost first
    err,        \* the error being propagated, if any
    result,     \* what the last top-level call returned
    refcount,   \* intern: activations in force
    tableLive,  \* intern: whether the string table exists
    table,      \* intern: the string table, text -> handle
    nextHandle, \* the next fresh shared allocation
    cursor,     \* loc: the last value resolved for each position field
    doc,        \* the root object of the call as it was read (on success)
    raised,     \* the first error raised in the call, with where
    lookups,    \* every intern lookup: call, node, text, handle
    positions,  \* every position decoded in the call: raw, resolved, node
    nread,      \* keys and array elements read in the call
    codec,      \* the identifier codec applied on its own: value, text, result
    failed      \* the calls that returned an error, with the depth it was raised at

vars == << budget, calls, nodes, npos, nids, nextra, stack, err, result, refcount, tableLive, table,
           nextHandle, cursor, doc, raised, lookups, positions, nread, codec,
           failed >>

\* ---------------------------------------------------------------- intern

\* The interning scope as one value.
Interner == [ refcount |-> refcount, tableLive |-> tableLive, table |-> table ]

\* intern::activate: the first activation allocates a fresh table, a nested
\* one only counts.
Activate(ic) ==
    IF ic.refcount = 0
    THEN [ refcount |-> 1, tableLive |-> TRUE, table |-> {} ]
    ELSE [ ic EXCEPT !.refcount = @ + 1 ]

\* Release of a guard that frees nothing: the count goes down, the table stays.
ReleaseKeepsTable(ic) ==
    [ ic EXCEPT !.refcount = IF @ <= 1 THEN 0 ELSE @ - 1 ]

\* The guard's release: only the outermost one frees the table.
Release(ic) ==
    IF ic.refcount <= 1
    THEN [ refcount |-> 0, tableLive |-> FALSE, table |-> {} ]
    ELSE [ ic EXCEPT !.refcount = @ - 1 ]

\* intern lookup of text: the handle of a content-equal earlier lookup of
\* the active scope, else a new shared allocation, entered in the table
\* when there is one.
Lookup(ic, text, next) ==
    IF ic.tableLive /\ \E e \in ic.table : e.text = text
    THEN [ h |-> (CHOOSE e \in ic.table : e.text = text).h,
           table |-> ic.table, next |-> next ]
    ELSE [ h |-> next,
           table |-> IF ic.tableLive
                     THEN ic.table \cup { [ text |-> text, h |-> next ] }
                     ELSE ic.table,
           next |-> next + 1 ]

\* GuardEnter that activates for the outermost Node only.
GuardEnterOutermost(ic) == IF ic.refcount = 0 THEN Activate(ic) ELSE ic

\* `let _intern = intern::activate();` on entry of Node::deserialize.
GuardEnter(ic) == Activate(ic)

\* GuardDrop of a guard that is leaked: it never releases.
GuardDropLeaked(ic) == ic

\* `_intern` goes out of scope when Node::deserialize returns, with Ok or
\* with Err.
GuardDrop(ic) == Release(ic)

\* ---------------------------------------------------------------- loc

EmptyCursor == [ file |-> NoneV, line |-> NoneV ]

\* A numeric position field that is present must be a u32.
Malformed(raw) == raw.line # NoneV /\ raw.line[1] < 0

\* ResolveField without inheritance: an omitted field stays empty.
ResolveFieldAsRead(present, cur) == present

\* One field of a position: the document's value when present, else the
\* cursor's.  The result is also the cursor's new value for the field.
ResolveField(present, cur) == IF present # NoneV THEN present ELSE cur

\* BareSourceLocation::deserialize: the resolved position, the cursor, the
\* string table and the allocation counter after it, and the lookup made.
DecodePosition(raw, cur, ic, next) ==
    LET look == Lookup(ic, raw.file[1], next)
        file == IF raw.file # NoneV THEN Some(look.h) ELSE NoneV
        pos  == [ file |-> ResolveField(file, cur.file),
                  line |-> ResolveField(raw.line, cur.line) ]
    IN  [ pos    |-> pos,
          cursor |-> pos,
          table  |-> IF raw.file # NoneV THEN look.table ELSE ic.table,
          next   |-> IF raw.file # NoneV THEN look.next ELSE next,
          looked |-> IF raw.file # NoneV
                     THEN { [ text |-> raw.file[1], h |-> look.h ] }
                     ELSE {} ]

\* ---------------------------------------------------------------- the schema T

\* The caller's type, after the crate's examples:
\*   enum Clang { NamespaceDecl { name, loc, range }, Other { kind } }
\* with every field of NamespaceDecl optional.
Variants == { "NamespaceDecl" }
Fallback == "Other"

\* Kind::null, the tag of an object without a kind.
NullKind == "null"

\* VariantOf of an enum without a fallback: every kind names its variant.
VariantOfNoFallback(tag) == tag

VariantOf(tag) == IF tag \in Variants THEN tag ELSE Fallback

\* The fields a variant declares, beside the injected kind of the fallback.
Declared(variant) ==
    IF variant = "NamespaceDecl" THEN { "name", "loc", "range" } ELSE {}

\* T as the router starts to fill it for a tag.
NewT(tag) ==
    [ variant |-> VariantOf(tag),
      kind    |-> IF VariantOf(tag) = Fallback THEN Some(tag) ELSE NoneV,
      name    |-> NoneV,
      loc     |-> NoneV,
      range   |-> NoneV ]

\* ---------------------------------------------------------------- frames

\* One field of an object as it was read.
Field(key, text, pos, kids) ==
    [ key |-> key, text |-> text, pos |-> pos, kids |-> kids ]

\* The locals of visit_map on entry: `id = None`, `inner = Vec::new()`.
NewFrame(n) ==
    [ pc      |-> "first",
      id      |-> NoneV,
      inner   |-> << >>,
      router  |-> FALSE,
      tag     |-> NoneV,
      t       |-> NoneV,
      node    |-> n,
      obj     |-> << >>,
      offered |-> << >> ]

Top == stack[Len(stack)]
Pop(st) == SubSeq(st, 1, Len(st) - 1)
SetTop(st, f) == [ st EXCEPT ![Len(st)] = f ]
Keys(obj) == [ i \in 1..Len(obj) |-> obj[i].key ]
Read(f, fld) == [ f EXCEPT !.obj = Append(@, fld) ]

NoResult == [ state |-> "none", node |-> NoneV, error |-> NoneV ]
OkResult(n) == [ state |-> "ok", node |-> Some(n), error |-> NoneV ]
ErrResult(e) == [ state |-> "err", node |-> NoneV, error |-> Some(e) ]

\* ---------------------------------------------------------------- visit_map

\* enum FirstField { Id, Kind, Inner }: a field identifier without a
\* catch-all, so any other key is an error of next_key.
FirstField(key) ==
    CASE key = "id"    -> "Id"
      [] key = "kind"  -> "Kind"
      [] key = "inner" -> "Inner"
      [] OTHER         -> "Unknown"

\* NodeDeserializer::new(kind, &mut inner, map) followed by T::deserialize:
\* the router takes over the rest of the object.  It is given the tag, the
\* child list and the reader, and not the id.
NewRouter(f, tag) ==
    [ f EXCEPT !.pc = "fields", !.router = TRUE, !.tag = Some(tag),
               !.t = Some(NewT(tag)) ]

\* IdArm without its `id.is_some()` test: a later id overwrites the first.
IdArmOverwrite(f, text) ==
    IF IdParse(text) = NoneV
    THEN Fail(f, Error("MalformedIdentifier", "id"))
    ELSE Go([ f EXCEPT !.id = IdParse(text) ])

\* Some(FirstField::Id): the outcome of the arm, a frame or an error.
IdArm(f, text) ==
    IF f.id # NoneV
    THEN Fail(f, Error("DuplicateField", "id"))
    ELSE IF IdParse(text) = NoneV
    THEN Fail(f, Error("MalformedIdentifier", "id"))
    ELSE Go([ f EXCEPT !.id = IdParse(text) ])

\* KindArm that builds the router and stays in the loop, where a later `id`
\* is still read as the node's.
KindArmLoops(f, name) == Go([ NewRouter(f, name) EXCEPT !.pc = "first" ])

\* KindArm that keeps the tag and goes on reading keys, leaving the router
\* to be built when the object ends.
KindArmDeferred(f, name) == Go([ f EXCEPT !.tag = Some(name) ])

\* Some(FirstField::Kind): the tag is read and the router built at once.
KindArm(f, name) == Go(NewRouter(f, name))

\* InnerArm that lets `inner` pass and goes on to look for the kind.
InnerArmSkip(f) == Go(f)

\* Some(FirstField::Inner): children before any kind.
InnerArm(f) == Fail(f, Error("MissingCategory", "kind"))

\* UnknownArm as if FirstField had a catch-all variant whose value is ignored.
UnknownArmSkip(f, key) == Go(f)

\* A key FirstField has no variant for.
UnknownArm(f, key) == Fail(f, Error("UnknownField", key))

\* NoneArm that takes the object for a node of the first variant.
NoneArmAsVariant(f) == NewRouter(f, "NamespaceDecl")

\* None: the object ends before any kind, the router gets Kind::null.
NoneArm(f) == NewRouter(f, NullKind)

\* UnwrapOrDefault with a default other than Id's.
UnwrapOrOne(id) == IF id = NoneV THEN 1 ELSE id[1]

\* `id.unwrap_or_default()`
UnwrapOrDefault(id) == IF id = NoneV THEN 0 ELSE id[1]

\* VisitMapOk that returns a node without the children decoded.
VisitMapOkNoInner(f) ==
    [ id |-> UnwrapOrDefault(f.id), kind |-> f.t[1], inner |-> << >> ]

\* `Ok(Node { id, kind, inner })`
VisitMapOk(f) ==
    [ id |-> UnwrapOrDefault(f.id), kind |-> f.t[1], inner |-> f.inner ]

\* UnwindStep of a caller that drops the error of the call it made.
UnwindStepSwallowed(st, e) == [ stack |-> Pop(st), err |-> NoneV ]

\* An error leaves one Node::deserialize through `?`: the frame is gone, the
\* error goes on to the caller unchanged.
UnwindStep(st, e) == [ stack |-> Pop(st), err |-> Some(e) ]

\* ---------------------------------------------------------------- the router

\* The router appends a decoded child to the list visit_map owns.
InnerPush(p, n) == [ p EXCEPT !.inner = Append(@, n) ]

\* A key of the rest of the object is offered to T by name.
Offer(f, key) == [ f EXCEPT !.offered = Append(@, key) ]

Wants(f, key) == key \in Declared(f.t[1].variant)
Has(f, key) == f.t[1][key] # NoneV
Give(f, key, v) == [ f EXCEPT !.t = Some([ f.t[1] EXCEPT ![key] = Some(v) ]) ]

\* ---------------------------------------------------------------- steps

Running == stack # << >> /\ err = NoneV
InFirst == Running /\ Top.pc = "first"
InFields == Running /\ Top.pc = "fields"

SetInterner(ic) ==
    /\ refcount' = ic.refcount
    /\ tableLive' = ic.tableLive
    /\ table' = ic.table

\* The frame goes on, with what it read.
Continue(f) ==
    /\ stack' = SetTop(stack, f)
    /\ nread' = nread + 1
    /\ UNCHANGED << calls, nodes, err, result, doc, raised >>

\* An error is raised in frame f.
Raise(f, e) ==
    /\ stack' = SetTop(stack, f)
    /\ err' = Some(e)
    /\ raised' = IF raised = NoneV
                 THEN Some([ error |-> e, node |-> f.node, depth |-> Len(stack),
                             keys |-> Keys(f.obj), router |-> f.router,
                             at |-> nread + 1 ])
                 ELSE raised
    /\ nread' = nread + 1
    /\ UNCHANGED << calls, nodes, result, doc >>

\* A step of the frame on top: it goes on, or its error is raised.
Step(out) == IF out.ok THEN Continue(out.f) ELSE Raise(out.f, out.e)

\* visit_map returns Ok(Node) from frame f: the guard is dropped, and the
\* node goes to the caller: the top-level caller, or the router of the parent,
\* which appends it to the parent's children.
ReturnOk(f) ==
    /\ SetInterner(GuardDrop(Interner))
    /\ IF Len(stack) = 1
       THEN /\ stack' = << >>
            /\ result' = OkResult(VisitMapOk(f))
            /\ doc' = Some(f.obj)
       ELSE LET p == stack[Len(stack) - 1]
                q == InnerPush(p, VisitMapOk(f))
            IN  /\ stack' = SetTop(Pop(stack),
                       [ q EXCEPT !.obj[Len(p.obj)].kids = Append(@, f.obj) ])
                /\ UNCHANGED << result, doc >>
    /\ nread' = nread + 1
    /\ UNCHANGED << budget, codec, failed, calls, nodes, npos, nids, nextra, err, nextHandle,
                    cursor, raised, lookups, positions >>

noLoc == << npos, nextHandle, cursor, lookups, positions >>
noKeys == << budget, nids, nextra, codec, failed >>

\* Node::deserialize called by the user: a top-level decode call starts.
Deserialize ==
    /\ stack = << >>
    /\ calls < budget.calls
    /\ nodes < budget.nodes
    /\ calls' = calls + 1
    /\ nodes' = nodes + 1
    /\ SetInterner(GuardEnter(Interner))
    /\ stack' = << NewFrame(nodes + 1) >>
    /\ err' = NoneV
    /\ result' = NoResult
    /\ doc' = NoneV
    /\ raised' = NoneV
    /\ positions' = << >>
    /\ nread' = 0
    /\ UNCHANGED << budget, codec, failed, npos, nids, nextra, nextHandle, cursor, lookups >>

\* visit_map, `None =>`: the object ends before any kind.
NextKeyNone ==
    /\ InFirst
    /\ ReturnOk(NoneArm(Top))

\* visit_map, `Some(FirstField::Id) =>`.
VisitId ==
    /\ InFirst
    /\ nids < budget.ids
    /\ nids' = nids + 1
    /\ UNCHANGED << budget, codec, failed, nextra >>
    /\ \E text \in IdTexts :
         Step(IdArm(Read(Top, Field("id", text, << >>, << >>)), text))
    /\ UNCHANGED << refcount, tableLive, table >>
    /\ UNCHANGED noLoc

\* visit_map, `Some(FirstField::Kind) =>`.
VisitKind ==
    /\ InFirst
    /\ UNCHANGED noKeys
    /\ \E name \in KindNames :
         Step(KindArm(Read(Top, Field("kind", << name >>, << >>, << >>)), name))
    /\ UNCHANGED << refcount, tableLive, table >>
    /\ UNCHANGED noLoc

\* visit_map: a key that ends the loop with an error: `inner` before any
\* kind, or a key FirstField does not know.
VisitError ==
    /\ InFirst
    /\ UNCHANGED noKeys
    /\ \E key \in { "inner" } \cup OtherKeys :
         LET f == Read(Top, Field(key, << >>, << >>, << >>))
         IN  Step(IF FirstField(key) = "Inner"
                  THEN InnerArm(f) ELSE UnknownArm(f, key))
    /\ UNCHANGED << refcount, tableLive, table >>
    /\ UNCHANGED noLoc

\* The error leaves the innermost Node::deserialize; its guard is dropped.
\* From the outermost one it is the result of the call.
Unwind ==
    /\ stack # << >>
    /\ err # NoneV
    /\ LET u == UnwindStep(stack, err[1])
       IN  /\ stack' = u.stack
           /\ IF u.stack = << >>
              THEN /\ result' = IF u.err = NoneV THEN NoResult
                                ELSE ErrResult(u.err[1])
                   /\ err' = NoneV
              ELSE /\ err' = u.err
                   /\ UNCHANGED result
    /\ SetInterner(GuardDrop(Interner))
    /\ failed' = IF Len(stack) = 1
                 THEN failed \cup { [ call |-> calls, depth |-> raised[1].depth ] }
                 ELSE failed
    /\ UNCHANGED << calls, nodes, doc, raised, nread >>
    /\ UNCHANGED << budget, nids, nextra, codec >>
    /\ UNCHANGED noLoc

noIntern == << refcount, tableLive, table >>

\* The router: the object ends, T is complete and visit_map returns.
RouterEnd ==
    /\ Running
    /\ Top.pc = "fields"
    /\ ReturnOk(Top)

\* The router: a second `kind`, a key already consumed.
RouterKind ==
    /\ InFields
    /\ budget.extra > 0
    /\ UNCHANGED noKeys
    /\ Raise(Read(Top, Field("kind", << "FooDecl" >>, << >>, << >>)),
             Error("DuplicateField", "kind"))
    /\ UNCHANGED noIntern
    /\ UNCHANGED noLoc

\* The router: an `id` after the kind is one of the remaining fields; T does
\* not declare it, and its value is skipped unparsed.
RouterLateId ==
    /\ InFields
    /\ nids < budget.ids
    /\ nids' = nids + 1
    /\ UNCHANGED << budget, codec, failed, nextra >>
    /\ Continue(Offer(Read(Top, Field("id", LateIdText, << >>, << >>)), "id"))
    /\ UNCHANGED noIntern
    /\ UNCHANGED noLoc

\* The router: a key the variant does not declare is skipped unparsed.
RouterSkip ==
    /\ InFields
    /\ nextra < budget.extra
    /\ nextra' = nextra + 1
    /\ UNCHANGED << budget, codec, failed, nids >>
    /\ \E key \in OtherKeys :
         /\ ~ Wants(Top, key)
         /\ Continue(Offer(Read(Top, Field(key, << >>, << >>, << >>)), key))
    /\ UNCHANGED noIntern
    /\ UNCHANGED noLoc

\* The router: a key the variant declares and has already been given.
RouterDuplicate ==
    /\ InFields
    /\ budget.extra > 0
    /\ UNCHANGED noKeys
    /\ \E key \in { "name", "loc", "range" } :
         /\ Wants(Top, key)
         /\ Has(Top, key)
         /\ Raise(Offer(Read(Top, Field(key, << >>, << >>, << >>)), key),
                  Error("DuplicateField", key))
    /\ UNCHANGED noIntern
    /\ UNCHANGED noLoc

\* The router: `name`, a plain field of the variant.
RouterName ==
    /\ InFields
    /\ nextra < budget.extra
    /\ nextra' = nextra + 1
    /\ UNCHANGED << budget, codec, failed, nids >>
    /\ Wants(Top, "name")
    /\ ~ Has(Top, "name")
    /\ Continue(Give(Offer(Read(Top, Field("name", << "S" >>, << >>, << >>)),
                           "name"), "name", "S"))
    /\ UNCHANGED noIntern
    /\ UNCHANGED noLoc

\* What one decoded position leaves in the records of the call.
Logged(raw, d, n) ==
    [ raw |-> raw, pos |-> d.pos, node |-> n ]
Looked(d, n) ==
    { [ call |-> calls, node |-> n, text |-> l.text, h |-> l.h ] : l \in d.looked }

\* The router: `loc`, a SourceLocation of the variant.
RouterLoc ==
    /\ InFields
    /\ Wants(Top, "loc")
    /\ ~ Has(Top, "loc")
    /\ npos < budget.pos
    /\ \E raw \in RawPositions :
         LET f == Offer(Read(Top, Field("loc", << >>, << raw >>, << >>)), "loc")
             d == DecodePosition(raw, cursor, Interner, nextHandle)
         IN  IF Malformed(raw)
             THEN /\ Raise(f, Error("MalformedLocation", "loc"))
                  /\ UNCHANGED << table, nextHandle, cursor, lookups, positions >>
             ELSE /\ Continue(Give(f, "loc", d.pos))
                  /\ table' = d.table
                  /\ nextHandle' = d.next
                  /\ cursor' = d.cursor
                  /\ lookups' = lookups \cup Looked(d, Top.node)
                  /\ positions' = Append(positions, Logged(raw, d, Top.node))
    /\ npos' = npos + 1
    /\ UNCHANGED << refcount, tableLive >>
    /\ UNCHANGED noKeys

\* The router: `range`, a SourceRange of the variant: begin, then end.
RouterRange ==
    /\ InFields
    /\ Wants(Top, "range")
    /\ ~ Has(Top, "range")
    /\ npos + 2 <= budget.pos
    /\ \E b \in RawPositions, e \in RawPositions :
         LET f  == Offer(Read(Top, Field("range", << >>, << b, e >>, << >>)), "range")
             d1 == DecodePosition(b, cursor, Interner, nextHandle)
             d2 == DecodePosition(e, d1.cursor, [ Interner EXCEPT !.table = d1.table ],
                                  d1.next)
         IN  IF Malformed(b)
             THEN /\ Raise(f, Error("MalformedLocation", "range"))
                  /\ UNCHANGED << table, nextHandle, cursor, lookups, positions >>
             ELSE IF Malformed(e)
             THEN /\ Raise(f, Error("MalformedLocation", "range"))
                  /\ table' = d1.table
                  /\ nextHandle' = d1.next
                  /\ cursor' = d1.cursor
                  /\ lookups' = lookups \cup Looked(d1, Top.node)
                  /\ positions' = Append(positions, Logged(b, d1, Top.node))
             ELSE /\ Continue(Give(f, "range", [ begin |-> d1.pos, end |-> d2.pos ]))
                  /\ table' = d2.table
                  /\ nextHandle' = d2.next
                  /\ cursor' = d2.cursor
                  /\ lookups' = lookups \cup Looked(d1, Top.node) \cup Looked(d2, Top.node)
                  /\ positions' = positions \o << Logged(b, d1, Top.node),
                                                  Logged(e, d2, Top.node) >>
    /\ npos' = npos + 2
    /\ UNCHANGED << refcount, tableLive >>
    /\ UNCHANGED noKeys

\* RouterInner that hands `inner` to T like any other key before opening it.
RouterInnerOffered ==
    /\ InFields
    /\ ~ \E i \in 1..Len(Top.obj) : Top.obj[i].key = "inner"
    /\ Continue([ Offer(Read(Top, Field("inner", << >>, << >>, << >>)), "inner")
                    EXCEPT !.pc = "inner" ])
    /\ UNCHANGED noKeys
    /\ UNCHANGED noIntern
    /\ UNCHANGED noLoc

\* The router: `inner`, which is not offered to T: its array is opened.
RouterInner ==
    /\ InFields
    /\ ~ \E i \in 1..Len(Top.obj) : Top.obj[i].key = "inner"
    /\ Continue([ Read(Top, Field("inner", << >>, << >>, << >>))
                    EXCEPT !.pc = "inner" ])
    /\ UNCHANGED noKeys
    /\ UNCHANGED noIntern
    /\ UNCHANGED noLoc

\* The router: the next element of `inner` is decoded as a Node<T>:
\* Node::deserialize is entered again.
InnerElement ==
    /\ Running
    /\ Top.pc = "inner"
    /\ nodes < budget.nodes
    /\ nodes' = nodes + 1
    /\ SetInterner(GuardEnter(Interner))
    /\ stack' = Append(stack, NewFrame(nodes + 1))
    /\ nread' = nread + 1
    /\ UNCHANGED << calls, err, result, doc, raised >>
    /\ UNCHANGED noKeys
    /\ UNCHANGED noLoc

\* The router: the array of `inner` ends.
InnerEnd ==
    /\ Running
    /\ Top.pc = "inner"
    /\ Continue([ Top EXCEPT !.pc = "fields" ])
    /\ UNCHANGED noKeys
    /\ UNCHANGED noIntern
    /\ UNCHANGED noLoc

\* ---------------------------------------------------------------- specification

NoFrames == << >>

Init ==
    /\ budget \in Budgets
    /\ calls = 0
    /\ nodes = 0
    /\ npos = 0
    /\ nids = 0
    /\ nextra = 0
    /\ stack = NoFrames
    /\ err = NoneV
    /\ result = NoResult
    /\ refcount = 0
    /\ tableLive = FALSE
    /\ table = {}
    /\ nextHandle = 0
    /\ cursor = EmptyCursor
    /\ doc = NoneV
    /\ raised = NoneV
    /\ lookups = {}
    /\ positions = << >>
    /\ nread = 0
    /\ failed = {}
    /\ codec = CodecIdle

Next ==
    \/ Deserialize
    \/ NextKeyNone
    \/ VisitId
    \/ VisitKind
    \/ VisitError
    \/ Unwind
    \/ RouterEnd
    \/ RouterKind
    \/ RouterLateId
    \/ RouterSkip
    \/ RouterDuplicate
    \/ RouterName
    \/ RouterLoc
    \/ RouterRange
    \/ RouterInner
    \/ InnerElement
    \/ InnerEnd

\* ---------------------------------------------------------------- the codec on its own

\* The values a nonzero digit takes.
NibbleSamples == { 1, 10, 15 }

\* The u64 values under test: at most MaxSig nonzero digits at any of the 16
\* places, and the largest u64.
U64Samples ==
    { U64Max } \cup
    UNION { { [ i \in 1..IdNibbles |-> IF i \in P THEN v[i] ELSE 0 ] :
                v \in [ P -> NibbleSamples ] } :
            P \in { Q \in SUBSET (1..IdNibbles) : Cardinality(Q) <= MaxSig } }

\* The digits of a u64 without leading zeros, at least one.
Significant(x) ==
    IF x = U64Zero THEN << 0 >>
    ELSE SubSeq(x, CHOOSE i \in 1..IdNibbles :
                     x[i] # 0 /\ \A j \in 1..(i - 1) : x[j] = 0,
                IdNibbles)

\* The hex text of a u64 over a digit table.
HexText(x, digits) ==
    [ i \in 1..Len(Significant(x)) |-> digits[Significant(x)[i] + 1] ]

Forms == { "lower", "upper", "prefixed" }

\* The text of a u64 in one of the forms an id is written in.
FormatId(x, form) ==
    CASE form = "lower"    -> HexText(x, HexDigits)
      [] form = "upper"    -> HexText(x, HexUpper)
      [] form = "prefixed" -> << "0", "x" >> \o HexText(x, HexDigits)

\* A u64 is written as text in one form.
IdFormat ==
    /\ codec.stage = "value"
    /\ \E form \in Forms :
         codec' = [ codec EXCEPT !.stage = "text", !.form = form,
                                 !.text = FormatId(codec.x, form) ]
    /\ UNCHANGED << budget, calls, nodes, npos, nids, nextra, stack, err, result,
                    refcount, tableLive, table, nextHandle, cursor, doc, raised,
                    lookups, positions, nread, failed >>

\* The text is decoded as an Id.
IdRead ==
    /\ codec.stage = "text"
    /\ codec' = [ codec EXCEPT !.stage = "decoded", !.got = IdDecode(codec.text) ]
    /\ UNCHANGED << budget, calls, nodes, npos, nids, nextra, stack, err, result,
                    refcount, tableLive, table, nextHandle, cursor, doc, raised,
                    lookups, positions, nread, failed >>

InitId ==
    /\ budget \in Budgets
    /\ calls = 0
    /\ nodes = 0
    /\ npos = 0
    /\ nids = 0
    /\ nextra = 0
    /\ stack = NoFrames
    /\ err = NoneV
    /\ result = NoResult
    /\ refcount = 0
    /\ tableLive = FALSE
    /\ table = {}
    /\ nextHandle = 0
    /\ cursor = EmptyCursor
    /\ doc = NoneV
    /\ raised = NoneV
    /\ lookups = {}
    /\ positions = << >>
    /\ nread = 0
    /\ failed = {}
    /\ \E x \in U64Samples : codec = [ CodecIdle EXCEPT !.stage = "value", !.x = x ]

NextId ==
    \/ IdFormat
    \/ IdRead

SpecId == InitId /\ [][NextId]_vars

Spec == Init /\ [][Next]_vars

\* ---------------------------------------------------------------- documents and trees

Frames == { stack[i] : i \in 1..Len(stack) }

HasKey(obj, key) == \E i \in 1..Len(obj) : obj[i].key = key
FirstOf(obj, key) == CHOOSE i \in 1..Len(obj) :
                        /\ obj[i].key = key
                        /\ \A j \in 1..(i - 1) : obj[j].key # key
Count(obj, key) == Cardinality({ i \in 1..Len(obj) : obj[i].key = key })

\* Key i of the object comes before any kind.
BeforeKind(obj, i) == \A j \in 1..i : obj[j].key # "kind"

\* The elements of the object's `inner` array.
Kids(obj) == IF HasKey(obj, "inner") THEN obj[FirstOf(obj, "inner")].kids ELSE << >>

\* The identifier the object's `id` field denotes, 0 without one.
DocId(obj) ==
    IF HasKey(obj, "id") /\ IdParse(obj[FirstOf(obj, "id")].text) # NoneV
    THEN IdParse(obj[FirstOf(obj, "id")].text)[1]
    ELSE 0

\* A well-formed object has its id, if any, as its first key, and so have
\* its children.
RECURSIVE WellFormed(_)
WellFormed(obj) ==
    /\ \A i \in 2..Len(obj) : obj[i].key # "id"
    /\ \A k \in 1..Len(Kids(obj)) : WellFormed(Kids(obj)[k])

\* The shape of a document: each object's id and its children, in order.
RECURSIVE DocShape(_)
DocShape(obj) ==
    [ id |-> DocId(obj),
      children |-> [ k \in 1..Len(Kids(obj)) |-> DocShape(Kids(obj)[k]) ] ]

\* The shape of a decoded tree.
RECURSIVE NodeShape(_)
NodeShape(n) ==
    [ id |-> n.id,
      children |-> [ k \in 1..Len(n.inner) |-> NodeShape(n.inner[k]) ] ]

Raised(kind, field) == err = Some(Error(kind, field))

\* ---------------------------------------------------------------- claims

\* C1: a successful decode of a well-formed document returns a tree of the
\* document's shape: every node has one child per element of its object's
\* `inner`, in array order, and the id of its own `id` field.  While the
\* decode runs, every frame holds the complete nodes of the elements read so
\* far, and the only object being read below a frame is one element of its
\* `inner`: a child is finished before its next sibling starts.
C1_TreeMatchesDocument ==
    /\ result.state = "ok" =>
         /\ doc # NoneV
         /\ WellFormed(doc[1]) => NodeShape(result.node[1]) = DocShape(doc[1])
    /\ \A i \in 1..Len(stack) :
         LET f == stack[i]
             kids == Kids(f.obj)
         IN  /\ Len(f.inner) = Len(kids)
             /\ \A k \in 1..Len(kids) :
                  WellFormed(kids[k]) => NodeShape(f.inner[k]) = DocShape(kids[k])
             /\ i < Len(stack) => f.pc = "inner"

\* A root without id whose two children have the ids 1 and 2, in this order.
C1_Witness ==
    /\ result.state = "ok"
    /\ WellFormed(doc[1])
    /\ Len(result.node[1].inner) = 2
    /\ result.node[1].inner[1].id = 1
    /\ result.node[1].inner[2].id = 2

\* The error the call raised was raised on reading `key` before any kind.
RaisedBeforeKindOn(key) ==
    /\ raised # NoneV
    /\ raised[1].keys[Len(raised[1].keys)] = key
    /\ \A j \in 1..Len(raised[1].keys) : raised[1].keys[j] # "kind"

\* C2: an object in which `inner` comes before any kind fails with
\* MissingCategory (missing field `kind`), with or without an id read first;
\* no router is built and no child is decoded for that object, and the
\* call returns that error.
C2_InnerBeforeKind ==
    /\ \A i \in 1..Len(stack) :
         LET f == stack[i]
         IN  (\E k \in 1..Len(f.obj) : f.obj[k].key = "inner" /\ BeforeKind(f.obj, k)) =>
               /\ Raised("MissingCategory", "kind")
               /\ raised # NoneV
               /\ raised[1].error = Error("MissingCategory", "kind")
               /\ i = Len(stack)
               /\ ~ f.router
               /\ f.inner = << >>
               /\ Kids(f.obj) = << >>
    /\ RaisedBeforeKindOn("inner") =>
         /\ raised[1].error = Error("MissingCategory", "kind")
         /\ ~ raised[1].router
         /\ result.state # "ok"
         /\ result.state = "err" =>
               result.error = Some(Error("MissingCategory", "kind"))

\* A child object read `id` and then `inner`.
C2_Witness ==
    /\ Len(stack) = 2
    /\ Keys(Top.obj) = << "id", "inner" >>
    /\ Raised("MissingCategory", "kind")

C4_SecondKindBeforeRouter ==
    \A f \in Frames :
      Count(f.obj, "kind") >= 2 => err # NoneV /\ ~ f.router

\* C4, amended: a second `kind` is an error, DuplicateField, and it is found
\* by the router: visit_map builds the router as soon as it has read the
\* first `kind`, so every frame that has read a kind has its router.
C4_SecondKindInRouter ==
    \A f \in Frames :
      /\ HasKey(f.obj, "kind") => f.router /\ f.tag = Some(f.obj[FirstOf(f.obj, "kind")].text[1])
      /\ Count(f.obj, "kind") >= 2 => Raised("DuplicateField", "kind") /\ f.router

\* A child object read `kind` twice.
C4_Witness ==
    /\ Len(stack) = 2
    /\ Keys(Top.obj) = << "kind", "kind" >>
    /\ Raised("DuplicateField", "kind")
    /\ Top.router

\* C5: a key that is none of id, kind, inner and comes before the kind makes
\* the decode of the object fail; it is not skipped, and not offered to T.
C5_UnknownBeforeKind ==
    /\ \A i \in 1..Len(stack) :
      LET f == stack[i]
      IN  \A k \in 1..Len(f.obj) :
            (f.obj[k].key \notin { "id", "kind", "inner" } /\ BeforeKind(f.obj, k)) =>
              /\ err # NoneV
              /\ raised # NoneV
              /\ raised[1].error.kind = "UnknownField"
              /\ raised[1].error.field = f.obj[k].key
              /\ i = Len(stack)
              /\ k = Len(f.obj)
              /\ ~ f.router
              /\ f.offered = << >>
    /\ \A key \in OtherKeys :
         RaisedBeforeKindOn(key) =>
           /\ raised[1].error = Error("UnknownField", key)
           /\ result.state # "ok"

\* A child object read `id` and then `loc`.
C5_Witness ==
    /\ Len(stack) = 2
    /\ Keys(Top.obj) = << "id", "loc" >>
    /\ Raised("UnknownField", "loc")

\* A node and every node below it has identifier 0 when its object has no
\* `id` key.
RECURSIVE NoIdIsZero(_, _)
NoIdIsZero(n, obj) ==
    /\ ~ HasKey(obj, "id") => n.id = 0
    /\ Len(n.inner) = Len(Kids(obj))
    /\ \A k \in 1..Len(n.inner) : NoIdIsZero(n.inner[k], Kids(obj)[k])

\* C6: every successfully decoded node whose object has no `id` field has
\* identifier 0, at every depth: in the tree returned, and among the
\* children already decoded while the call runs.
C6_AbsentIdIsZero ==
    /\ result.state = "ok" => NoIdIsZero(result.node[1], doc[1])
    /\ \A f \in Frames :
         /\ Len(f.inner) = Len(Kids(f.obj))
         /\ \A k \in 1..Len(f.inner) : NoIdIsZero(f.inner[k], Kids(f.obj)[k])

\* A root with an id whose grandchild has none.
C6_Witness ==
    /\ result.state = "ok"
    /\ result.node[1].id = 1
    /\ Len(result.node[1].inner) = 1
    /\ Len(result.node[1].inner[1].inner) = 1
    /\ ~ HasKey(Kids(Kids(doc[1])[1])[1], "id")
    /\ result.node[1].inner[1].inner[1].id = 0

\* C7: the first error raised at any depth is what the top-level call
\* returns: the result holds that error and no node, nothing is read between
\* the raise and the return, and a call that returns a node has raised none.
C7_FirstErrorReturned ==
    /\ result.state = "err" =>
         /\ raised # NoneV
         /\ result.error = Some(raised[1].error)
         /\ result.node = NoneV
         /\ doc = NoneV
    /\ result.state = "ok" => raised = NoneV /\ result.node # NoneV
    /\ raised # NoneV =>
         /\ nread = raised[1].at
         /\ stack = << >> => result.state = "err"
         /\ stack # << >> => /\ err = Some(raised[1].error)
                             /\ Len(stack) <= raised[1].depth

\* The third node, second child of the root, raised; the call returned its error.
C7_Witness ==
    /\ result.state = "err"
    /\ raised[1].depth = 2
    /\ raised[1].node = 3
    /\ result.error = Some(raised[1].error)

\* C8: every position decoded in a call takes each field it omits from the
\* position decoded just before it in the call, whatever node that one
\* belongs to; a field that is present is the resolved value (for the file,
\* the handle the call interned its text to); and the cursor holds the last
\* position resolved.
C8_OmittedFieldInherits ==
    /\ \A i \in 1..Len(positions) :
         LET p == positions[i]
         IN  /\ p.raw.line # NoneV => p.pos.line = p.raw.line
             /\ p.raw.file # NoneV =>
                  /\ p.pos.file # NoneV
                  /\ \E l \in lookups :
                       l.call = calls /\ l.text = p.raw.file[1] /\ l.h = p.pos.file[1]
             /\ (i > 1 /\ p.raw.line = NoneV) => p.pos.line = positions[i - 1].pos.line
             /\ (i > 1 /\ p.raw.file = NoneV) => p.pos.file = positions[i - 1].pos.file
    /\ positions # << >> => cursor = positions[Len(positions)].pos

\* The root's first child has a range from a.c to b.h; its second child has
\* a position without file, which is resolved to b.h.
C8_Witness ==
    /\ Len(stack) = 2
    /\ Len(stack[1].inner) = 1
    /\ Len(positions) = 3
    /\ positions[1].node = 2
    /\ positions[2].node = 2
    /\ positions[3].node = 3
    /\ positions[1].raw.file = Some("a.c")
    /\ positions[2].raw.file = Some("b.h")
    /\ positions[3].raw = [ file |-> NoneV, line |-> NoneV ]
    /\ positions[3].pos.file = positions[2].pos.file
    /\ positions[3].pos.file # positions[1].pos.file
    /\ positions[3].pos.line # NoneV

\* C9: the interning scope is a reentrant guard.  The activation count is the
\* number of Node decodes in progress, the table exists exactly while that
\* count is at least 1; the first activation makes a fresh empty table, a
\* nested one leaves the table as it is, and the table is freed exactly when
\* the outermost Node decode returns.
C9_ScopeInvariant ==
    /\ refcount = Len(stack)
    /\ tableLive <=> refcount >= 1
    /\ ~ tableLive => table = {}

C9_ScopeStep ==
    /\ (refcount = 0 /\ refcount' >= 1) => tableLive' /\ table' = {}
    /\ (refcount >= 1 /\ refcount' > refcount) =>
          /\ refcount' = refcount + 1
          /\ Len(stack') = Len(stack) + 1
          /\ table' = table
    /\ (tableLive /\ ~ tableLive') <=> (Len(stack) = 1 /\ stack' = << >>)

C9_ReentrantGuard == [] C9_ScopeInvariant /\ [] [C9_ScopeStep]_vars

\* Three Node decodes in progress over a table with an entry.
C9_Witness ==
    /\ Len(stack) = 3
    /\ refcount = 3
    /\ tableLive
    /\ table # {}

\* C10: in one decode call equal texts get the same handle and different
\* texts different handles, wherever in the tree they are looked up; a handle
\* of one call is never what a lookup of another call returns.
C10_HandlesPerCall ==
    \A a \in lookups, b \in lookups :
      /\ a.call = b.call => (a.text = b.text <=> a.h = b.h)
      /\ a.call # b.call => a.h # b.h

\* The same text was looked up in a first call and, in a second call, in a
\* parent and its child.
C10_Witness ==
    \E a \in lookups, b \in lookups, c \in lookups :
      /\ a.call = 1 /\ b.call = 2 /\ c.call = 2
      /\ a.text = b.text /\ b.text = c.text
      /\ b.node # c.node
      /\ b.h = c.h
      /\ a.h # b.h

\* The text of the object's `kind` field, if it has one.
DocKind(obj) ==
    IF HasKey(obj, "kind") THEN Some(obj[FirstOf(obj, "kind")].text[1]) ELSE NoneV

\* T was routed by the kind text k: into the variant of that name, or into
\* the fallback, whose `kind` field is then the text itself.
RoutedBy(t, k) ==
    /\ k \in Variants => t.variant = k /\ t.kind = NoneV
    /\ k \notin Variants => t.variant = Fallback /\ t.kind = Some(k)

\* The same of a decoded node and every node below it, against its object.
RECURSIVE RoutedAsDeclared(_, _)
RoutedAsDeclared(n, obj) ==
    /\ DocKind(obj) # NoneV => RoutedBy(n.kind, DocKind(obj)[1])
    /\ Len(n.inner) = Len(Kids(obj))
    /\ \A k \in 1..Len(n.inner) : RoutedAsDeclared(n.inner[k], Kids(obj)[k])

\* C11: with the enum schema, a node whose `kind` is the name of a variant is
\* decoded into that variant, and a node whose `kind` is no variant's name
\* into the fallback variant Other, whose declared `kind` field is the
\* document's kind string; at every depth of the tree returned, and in every
\* decode in progress.
C11_FallbackRouting ==
    /\ result.state = "ok" => RoutedAsDeclared(result.node[1], doc[1])
    /\ \A f \in Frames :
         /\ (f.router /\ DocKind(f.obj) # NoneV) => RoutedBy(f.t[1], DocKind(f.obj)[1])
         /\ Len(f.inner) = Len(Kids(f.obj))
         /\ \A k \in 1..Len(f.inner) : RoutedAsDeclared(f.inner[k], Kids(f.obj)[k])

\* A NamespaceDecl root with a name, whose child is a FooDecl: the root is
\* the variant, the child the fallback carrying "FooDecl".
C11_Witness ==
    /\ result.state = "ok"
    /\ DocKind(doc[1]) = Some("NamespaceDecl")
    /\ result.node[1].kind.variant = "NamespaceDecl"
    /\ result.node[1].kind.name = Some("S")
    /\ Len(result.node[1].inner) = 1
    /\ DocKind(Kids(doc[1])[1]) = Some("FooDecl")
    /\ result.node[1].inner[1].kind.variant = "Other"
    /\ result.node[1].inner[1].kind.kind = Some("FooDecl")

\* C12: the lowercase hex text of a u64 x decodes to x, and so do the
\* uppercase text and the 0x-prefixed text of the same digits; for every x
\* under test, up to the largest u64.
C12_HexRoundTrip ==
    codec.stage = "decoded" =>
      /\ codec.got = Some(codec.x)
      /\ IdDecode(FormatId(codec.x, "lower")) = codec.got
      /\ IdDecode(FormatId(codec.x, "upper")) = codec.got
      /\ IdDecode(FormatId(codec.x, "prefixed")) = codec.got

\* The largest u64, written 0xffffffffffffffff, was decoded; and a value
\* with a letter digit written in upper case.
C12_Witness ==
    /\ codec.stage = "decoded"
    /\ codec.x = U64Max
    /\ codec.form = "prefixed"
    /\ Len(codec.text) = 18
    /\ codec.got = Some(U64Max)
    /\ IdDecode(FormatId(U64Max, "upper")) = Some(U64Max)
    /\ FormatId(U64Max, "upper") # FormatId(U64Max, "lower")

\* Every `id` that is the first key of an object of the document is well
\* formed.
RECURSIVE FirstIdsWellFormed(_)
FirstIdsWellFormed(obj) ==
    /\ (obj # << >> /\ obj[1].key = "id") => IdWellFormed(obj[1].text)
    /\ \A k \in 1..Len(Kids(obj)) : FirstIdsWellFormed(Kids(obj)[k])

\* C13: an `id` whose text is empty or has a character that is no hex digit
\* fails with MalformedIdentifier; the error is raised in the decode of the
\* node that carries the `id`, which gets no identifier, builds no router and
\* returns no node: no tree returned holds a node made from such an object.
C13_MalformedIdAborts ==
    /\ \A i \in 1..Len(stack) :
         LET f == stack[i]
         IN  (f.obj # << >> /\ f.obj[1].key = "id" /\ ~ IdWellFormed(f.obj[1].text)) =>
               /\ Raised("MalformedIdentifier", "id")
               /\ raised # NoneV
               /\ raised[1].error = Error("MalformedIdentifier", "id")
               /\ raised[1].node = f.node
               /\ i = Len(stack)
               /\ Len(f.obj) = 1
               /\ f.id = NoneV
               /\ ~ f.router
    /\ \A f \in Frames :
         \A k \in 1..Len(Kids(f.obj)) :
           k <= Len(f.inner) => FirstIdsWellFormed(Kids(f.obj)[k])
    /\ result.state = "ok" => FirstIdsWellFormed(doc[1])
    /\ (raised # NoneV /\ raised[1].error = Error("MalformedIdentifier", "id")) =>
         /\ result.state # "ok"
         /\ stack = << >> => result = ErrResult(Error("MalformedIdentifier", "id"))

\* A second child, after a first one decoded with id 2, carries an empty id.
C13_Witness ==
    /\ Len(stack) = 2
    /\ Len(stack[1].inner) = 1
    /\ stack[1].inner[1].id = 2
    /\ Keys(Top.obj) = << "id" >>
    /\ Top.obj[1].text = << >>
    /\ Raised("MalformedIdentifier", "id")

\* T as decoded from a router with the null tag and no field left: the
\* fallback variant carrying Kind::null, every other field empty.
NullT(t) ==
    /\ t.variant = Fallback
    /\ t.kind = Some("null")
    /\ t.name = NoneV /\ t.loc = NoneV /\ t.range = NoneV

\* A decoded node, and every node below it, whose object has no `kind` key
\* is a node of the null tag, without children, with the id read or 0.
RECURSIVE NullWhereNoKind(_, _)
NullWhereNoKind(n, obj) ==
    /\ ~ HasKey(obj, "kind") =>
         /\ NullT(n.kind)
         /\ n.inner = << >>
         /\ n.id = DocId(obj)
         /\ Len(obj) <= 1
    /\ Len(n.inner) = Len(Kids(obj))
    /\ \A k \in 1..Len(n.inner) : NullWhereNoKind(n.inner[k], Kids(obj)[k])

\* C14: an object that ends before any `kind` (the empty object, or one
\* holding only an `id`) is decoded without error: T is decoded from a
\* router with the null tag over no remaining field, and the node returned
\* has no children and the id read, or 0.  MissingCategory is raised only on
\* reading `inner`, never at the end of an object.
C14_NullSentinel ==
    /\ result.state = "ok" => NullWhereNoKind(result.node[1], doc[1])
    /\ \A f \in Frames :
         /\ Len(f.inner) = Len(Kids(f.obj))
         /\ \A k \in 1..Len(f.inner) : NullWhereNoKind(f.inner[k], Kids(f.obj)[k])
         /\ (~ HasKey(f.obj, "kind") /\ err = NoneV) => ~ f.router /\ f.pc = "first"
    /\ (raised # NoneV /\ raised[1].error.kind = "MissingCategory") =>
         raised[1].keys[Len(raised[1].keys)] = "inner"

\* A tree whose root has two children: an object holding only the id 0x1,
\* and the empty object.
C14_Witness ==
    /\ result.state = "ok"
    /\ Len(result.node[1].inner) = 2
    /\ Keys(Kids(doc[1])[1]) = << "id" >>
    /\ Kids(doc[1])[2] = << >>
    /\ result.node[1].inner[1].id = 1
    /\ result.node[1].inner[2].id = 0
    /\ NullT(result.node[1].inner[1].kind)
    /\ NullT(result.node[1].inner[2].kind)

\* The keys of a sequence of keys that are none of the given ones.
RECURSIVE Without(_, _)
Without(ks, drop) ==
    IF ks = << >> THEN << >>
    ELSE IF ks[1] \in drop THEN Without(Tail(ks), drop)
    ELSE << ks[1] >> \o Without(Tail(ks), drop)

\* The keys of the object that follow its first `kind`.
AfterKind(obj) ==
    IF HasKey(obj, "kind")
    THEN SubSeq(Keys(obj), FirstOf(obj, "kind") + 1, Len(obj))
    ELSE << >>

\* C15: wherever `inner` stands among the fields after `kind`, it is never
\* offered to T: T is offered exactly the other keys after `kind`, in their
\* order, those after `inner` included, and a field T declares is given to T
\* also when it follows `inner`.  Each element of `inner` decoded so far is
\* one child in the list of the frame, which T never holds.
C15_InnerOutOfBand ==
    \A f \in Frames :
      /\ \A i \in 1..Len(f.offered) : f.offered[i] # "inner"
      /\ f.offered = Without(AfterKind(f.obj), { "inner", "kind" })
      /\ Len(f.inner) = Len(Kids(f.obj))
      /\ f.pc = "first" => f.inner = << >>
      /\ err = NoneV =>
           \A i \in 1..Len(AfterKind(f.obj)) :
             AfterKind(f.obj)[i] \in Declared(f.t[1].variant) =>
               f.t[1][AfterKind(f.obj)[i]] # NoneV

\* An object read `kind`, a skipped `id`, `inner` with one child, and then
\* `name`, which T was given.
C15_Witness ==
    /\ stack # << >>
    /\ Keys(Top.obj) = << "kind", "id", "inner", "name" >>
    /\ Len(Top.inner) = 1
    /\ Top.offered = << "id", "name" >>
    /\ Top.t[1].name = Some("S")

\* C16: when a top-level call has returned, with a tree or with an error
\* raised at any depth, the activation count is 0 again, as before the call,
\* and its table is gone.  The table of a call holds only what that call
\* looked up, and is empty when the call starts, also after a failed call.
C16_CleanupOnEveryExit ==
    /\ stack = << >> =>
         /\ refcount = 0
         /\ ~ tableLive
         /\ table = {}
    /\ (Len(stack) = 1 /\ nread = 0) =>
         /\ refcount = 1
         /\ tableLive
         /\ table = {}
    /\ \A e \in table :
         \E l \in lookups : l.call = calls /\ l.text = e.text /\ l.h = e.h

\* A first call interned a file name in its root and then failed in a child
\* of the root; the second call has read its kind, over a fresh empty table.
C16_Witness ==
    /\ calls = 2
    /\ failed = { [ call |-> 1, depth |-> 2 ] }
    /\ \E l \in lookups : l.call = 1 /\ l.node = 1
    /\ ~ \E l \in lookups : l.call = 2
    /\ Len(stack) = 1
    /\ Top.router
    /\ refcount = 1
    /\ tableLive
    /\ table = {}

\* C17: the cursor belongs to one top-level call.  Within a call it is never
\* reset: a position takes what it omits from the position before it.  When
\* a call starts the cursor holds nothing, so the first position of a call
\* that omits a field has none, and no position of a call resolves to a file
\* that was interned by an earlier call.
C17_CursorPerCall ==
    /\ (Len(stack) = 1 /\ nread = 0) => cursor = EmptyCursor
    /\ \A i \in 1..Len(positions) :
         LET p == positions[i]
         IN  /\ (i > 1 /\ p.raw.line = NoneV) => p.pos.line = positions[i - 1].pos.line
             /\ (i > 1 /\ p.raw.file = NoneV) => p.pos.file = positions[i - 1].pos.file
             /\ (i = 1 /\ p.raw.line = NoneV) => p.pos.line = NoneV
             /\ (i = 1 /\ p.raw.file = NoneV) => p.pos.file = NoneV
             /\ p.pos.file # NoneV =>
                  \E l \in lookups : l.call = calls /\ l.h = p.pos.file[1]

\* The identifier an object gives its node: that of its first key when that
\* key is `id`, else none.
FirstKeyId(obj) ==
    IF obj # << >> /\ obj[1].key = "id" THEN IdParse(obj[1].text) ELSE NoneV

\* A decoded node, and every node below it, has the identifier of the first
\* key of its object, 0 without one; a nonzero identifier comes from an `id`
\* that is the first key.
RECURSIVE IdFromFirstKey(_, _)
IdFromFirstKey(n, obj) ==
    /\ n.id = UnwrapOrDefault(FirstKeyId(obj))
    /\ n.id # 0 => obj[1].key = "id"
    /\ Len(n.inner) = Len(Kids(obj))
    /\ \A k \in 1..Len(n.inner) : IdFromFirstKey(n.inner[k], Kids(obj)[k])

\* C18: a node's identifier is set only from an `id` read before the `kind`,
\* which is then the first key of the object: every node of a tree returned
\* with a nonzero identifier has `id` as its first key, and an `id` that
\* follows the `kind` changes neither the identifier held while the object
\* is read nor that of the node returned.
C18_IdOnlyBeforeKind ==
    /\ result.state = "ok" => IdFromFirstKey(result.node[1], doc[1])
    /\ \A f \in Frames :
         /\ err = NoneV => f.id = FirstKeyId(f.obj)
         /\ f.id # NoneV => f.obj[1].key = "id"
         /\ Len(f.inner) = Len(Kids(f.obj))
         /\ \A k \in 1..Len(f.inner) : IdFromFirstKey(f.inner[k], Kids(f.obj)[k])

\* A tree whose root object is id 0x1, kind, id 2 has the identifier 1, and
\* its child, whose object is kind alone, the identifier 0.
C18_Witness ==
    /\ result.state = "ok"
    /\ Keys(doc[1]) = << "id", "kind", "id", "inner" >>
    /\ IdParse(doc[1][3].text) = Some(2)
    /\ result.node[1].id = 1
    /\ Len(result.node[1].inner) = 1
    /\ Keys(Kids(doc[1])[1]) = << "kind" >>
    /\ result.node[1].inner[1].id = 0
====
